---- MODULE Spec2Model ----
(***************************************************************************)
(* A model of the bounded model checking engine of CoSA                    *)
(* (cosa/analyzers/bmc.py): the time-indexing caches, the solver facade    *)
(* with its SMT-LIB trace, the unroller, the simple-path encoder, the      *)
(* search strategies, the model remapper and the lemma pipeline.           *)
(*                                                                         *)
(* The transition system under analysis has one variable x over Vals.  A   *)
(* formula is kept in conjunctive normal form over atoms; an atom is a     *)
(* table constraint [syms, tab]: the tuple of symbols it mentions and the  *)
(* value tuples that satisfy it.  The SMT solver is modelled by what it    *)
(* decides: check-sat is the existence of an assignment of the mentioned   *)
(* symbols that satisfies every asserted clause, get_model is any such     *)
(* assignment.                                                             *)
(***************************************************************************)
EXTENDS Integers, Sequences, FiniteSets, TLC

VARIABLES hts, prop, config, k, k_min, varmapf_t, varmapb_t,
          solver, solver_2, pc, t, propt, res, ret,
          lemmas, lidx, holding_lemmas, runs, hist, entry, full_model, init_0

vars == <<hts, prop, config, k, k_min, varmapf_t, varmapb_t,
          solver, solver_2, pc, t, propt, res, ret,
          lemmas, lidx, holding_lemmas, runs, hist,
         entry, full_model, init_0>>

-----------------------------------------------------------------------------
(* Bounds of the model *)

\* the largest horizon k a search is called with
MaxK == 3
\* the largest minimum depth k_min a search is called with
MaxKMin == 2
\* the longest lemma list handed to the lemma pipeline
MaxLemmas == 2
\* the number of lemma-pipeline runs on one HTS
MaxRuns == 2

\* the largest horizon simulate is called with
MaxSimK == 2

\* the values of the variable x of the transition system
Vals == {0, 1, 2, 3}

-----------------------------------------------------------------------------
(* Strategies *)

FWD == "FWD"
BWD == "BWD"
ZZ == "ZZ"
NU == "NU"

\* the variables of the HTS (hts.vars)
Vars == {"x"}

-----------------------------------------------------------------------------
(* Name transforms of TS: current x, next x', previous x^, forward-timed   *)
(* x@t and previous-timed x#t                                              *)

prime(sname) == sname \o "'"

prev(sname) == sname \o "^"

timed(sname, i) == <<"@", sname, i>>

ptimed(sname, i) == <<"#", sname, i>>

-----------------------------------------------------------------------------
(* Formulas *)

TrueAtom == [syms |-> <<>>, tab |-> {<<>>}]

FalseAtom == [syms |-> <<>>, tab |-> {}]

\* all value tuples of length n (n <= 2)
Tuples(n) == IF n = 0 THEN {<<>>}
             ELSE IF n = 1 THEN {<<v>> : v \in Vals}
             ELSE {<<v, w>> : v \in Vals, w \in Vals}

\* the atom "x is in S"; the constant formulas have no free variable
SetAtom(S) == IF S = Vals THEN TrueAtom
              ELSE IF S = {} THEN FalseAtom
              ELSE [syms |-> <<"x">>, tab |-> {<<v>> : v \in S}]

\* the atom "(x, x') is in R"
RelAtom(R) == [syms |-> <<"x", prime("x")>>, tab |-> R]

NotAtom(a) == [syms |-> a.syms, tab |-> Tuples(Len(a.syms)) \ a.tab]

\* pysmt constructors, on formulas in conjunctive normal form
TRUE_F == {}

FALSE_F == {{}}

Lit(a) == {{a}}

And(f, g) == f \cup g

Or(f, g) == {c \cup d : c \in f, d \in g}

Not(a) == Lit(NotAtom(a))

EqualsOrIff(s1, s2) == Lit([syms |-> <<s1, s2>>, tab |-> {<<v, v>> : v \in Vals}])

EqualsVal(s, val) == Lit([syms |-> <<s>>, tab |-> {<<val>>}])

NotEq(s1, s2) == Lit([syms |-> <<s1, s2>>,
                      tab |-> {<<v, w>> : v \in Vals, w \in Vals} \ {<<v, v>> : v \in Vals}])

Range(s) == {s[i] : i \in DOMAIN s}

\* get_free_variables
FreeVarsAtom(a) == Range(a.syms)

get_free_variables(f) == UNION {UNION {FreeVarsAtom(a) : a \in c} : c \in f}

\* substitute(formula, map): symbols outside the map are left alone
substitute(f, map) ==
    {{[syms |-> [i \in DOMAIN a.syms |->
                    IF a.syms[i] \in DOMAIN map THEN map[a.syms[i]] ELSE a.syms[i]],
       tab |-> a.tab] : a \in c} : c \in f}

\* TS.has_next
has_next(a) == prime("x") \in FreeVarsAtom(a)

\* TS.to_next on an atom over x
to_next(a) == [syms |-> [i \in DOMAIN a.syms |-> prime(a.syms[i])], tab |-> a.tab]

\* the value tuple an assignment m gives the symbols of atom a
ValueOf(a, m) == [i \in DOMAIN a.syms |-> m[a.syms[i]]]

HoldsAtom(a, m) == ValueOf(a, m) \in a.tab

Holds(f, m) == \A c \in f : \E a \in c : HoldsAtom(a, m)

\* the satisfying assignments of formula f over its free symbols
Models(f) == {m \in [get_free_variables(f) -> Vals] : Holds(f, m)}

IsSat(f) == \E m \in [get_free_variables(f) -> Vals] : Holds(f, m)

-----------------------------------------------------------------------------
(* HTS: single_init, single_trans, single_invar are atoms *)

single_init(h) == h.init

single_trans(h) == h.trans

single_invar(h) == h.invar

-----------------------------------------------------------------------------
(* TraceSolver: the solver and its SMT-LIB trace.                          *)
(*   assertions    the assertion stack of the SMT solver, one set of       *)
(*                 asserted formulas per push-level (the first is level 0) *)
(*   objs          the Python set objects that smt2vars has been bound to  *)
(*   smt2vars      the set object currently holding the declared symbols   *)
(*   smt2vars_inc  the stack push appends smt2vars to (references)         *)
(*   trace_file    whether a trace file is configured                      *)
(*   log           the lines of the trace file (blank lines and comments   *)
(*                 left out); the declare-fun lines of one assertion are   *)
(*                 one entry, and so are its assert lines                  *)
(*   called        whether a call has been made on the SMT solver          *)
(*                 (solver.solver) since the construction                  *)
(***************************************************************************)

TraceSolver(tracing) ==
    [assertions |-> <<{}>>, objs |-> <<{}>>, smt2vars |-> 1,
     smt2vars_inc |-> <<>>, trace_file |-> tracing, log |-> <<>>, called |-> FALSE]

Line(op, syms) == [op |-> op, syms |-> syms]

\* _write_smt2_log
write_smt2_log(sv, line) ==
    IF sv.trace_file THEN [sv EXCEPT !.log = Append(@, line)] ELSE sv

\* the formulas the SMT solver currently holds, as one conjunction
Asserted(sv) == UNION (UNION {sv.assertions[i] : i \in DOMAIN sv.assertions})

\* the outstanding push-levels of the SMT solver
PushLevels(sv) == Len(sv.assertions) - 1

\* the declared symbols, as _add_assertion reads them
Declared(sv) == sv.objs[sv.smt2vars]

\* solver.solver.add_assertion
solver_add_assertion(sv, formula) ==
    [sv EXCEPT !.assertions[Len(sv.assertions)] = @ \cup {formula}, !.called = TRUE]

\* the set that v is added to by solver.smt2vars.add(v), in place
smt2vars_add(sv, fv) == [sv EXCEPT !.objs[sv.smt2vars] = @ \cup fv]

add_assertion(sv, formula) ==
    LET s1 == IF config.skip_solving THEN sv ELSE solver_add_assertion(sv, formula)
        formula_fv == get_free_variables(formula)
        new == formula_fv \ Declared(s1)
        s2 == IF new # {} THEN write_smt2_log(s1, Line("declare-fun", new)) ELSE s1
        s3 == smt2vars_add(s2, formula_fv)
    IN  IF sv.trace_file
        THEN write_smt2_log(s3, Line("assert", formula_fv))
        ELSE s1

\* the value smt2vars_inc.append(solver.smt2vars) stores: the object itself
smt2vars_saved(sv) == sv.smt2vars

\* a _push that calls the SMT solver whatever skip_solving is
push_unguarded(sv) ==
    LET s1 == [sv EXCEPT !.assertions = Append(@, {}), !.called = TRUE]
        s2 == [s1 EXCEPT !.smt2vars_inc = Append(@, smt2vars_saved(s1))]
    IN  write_smt2_log(s2, Line("push", {}))

push(sv) ==
    LET s1 == IF config.skip_solving THEN sv
              ELSE [sv EXCEPT !.assertions = Append(@, {}), !.called = TRUE]
        s2 == [s1 EXCEPT !.smt2vars_inc = Append(@, smt2vars_saved(s1))]
    IN  write_smt2_log(s2, Line("push", {}))

pop(sv) ==
    LET s1 == IF config.skip_solving THEN sv
              ELSE [sv EXCEPT !.assertions = SubSeq(@, 1, Len(@) - 1), !.called = TRUE]
        s2 == [s1 EXCEPT !.smt2vars = sv.smt2vars_inc[Len(sv.smt2vars_inc)],
                         !.smt2vars_inc = SubSeq(@, 1, Len(@) - 1)]
    IN  write_smt2_log(s2, Line("pop", {}))

\* clear=True recreates the SMT solver, reset_assertions empties it
reset_assertions(sv) ==
    LET s1 == IF config.skip_solving THEN sv
              ELSE [sv EXCEPT !.assertions = <<{}>>, !.called = TRUE]
    IN  IF sv.trace_file
        THEN [s1 EXCEPT !.objs = Append(@, {}),
                        !.smt2vars = Len(sv.objs) + 1,
                        !.log = <<Line("set-logic", {})>>]
        ELSE s1

\* _solve: the lines it writes, and the call of solver.solver.solve()
solve_log(sv) ==
    LET s1 == write_smt2_log(sv, Line("check-sat", {}))
    IN  IF config.skip_solving THEN s1 ELSE [s1 EXCEPT !.called = TRUE]

\* _solve: the value it returns, None when skip_solving is set
solve_ret(sv) ==
    IF config.skip_solving THEN "None"
    ELSE IF IsSat(Asserted(sv)) THEN "True" ELSE "False"

\* _solve: its answer; None (skip_solving) is falsy wherever it is tested
solve_res(sv) == solve_ret(sv) = "True"

\* solver.solver.get_model(): any assignment satisfying the assertions
get_model(sv) == Models(Asserted(sv))

-----------------------------------------------------------------------------
(* Time-indexing caches *)

Names == Vars \cup {prime(v) : v \in Vars} \cup {prev(v) : v \in Vars}

\* the pairs appended to varmapf in iteration tt of _init_at_time
varmapf(varsstr, tt) ==
    [n \in varsstr \cup {prime(v) : v \in varsstr} \cup {prev(v) : v \in varsstr} |->
        LET sname == CHOOSE v \in varsstr : n \in {v, prime(v), prev(v)}
        IN  IF n = sname THEN timed(sname, tt)
            ELSE IF n = prime(sname) THEN timed(sname, tt + 1)
            ELSE timed(sname, tt - 1)]

\* a varmapb whose next and previous targets are exchanged
varmapb_exchanged(varsstr, tt) ==
    [n \in varsstr \cup {prime(v) : v \in varsstr} \cup {prev(v) : v \in varsstr} |->
        LET sname == CHOOSE v \in varsstr : n \in {v, prime(v), prev(v)}
        IN  IF n = sname THEN ptimed(sname, tt)
            ELSE IF n = prime(sname) THEN ptimed(sname, tt + 1)
            ELSE ptimed(sname, tt - 1)]

\* the pairs appended to varmapb in iteration tt of _init_at_time
varmapb(varsstr, tt) ==
    [n \in varsstr \cup {prime(v) : v \in varsstr} \cup {prev(v) : v \in varsstr} |->
        LET sname == CHOOSE v \in varsstr : n \in {v, prime(v), prev(v)}
        IN  IF n = sname THEN ptimed(sname, tt)
            ELSE IF n = prime(sname) THEN ptimed(sname, tt - 1)
            ELSE ptimed(sname, tt + 1)]

\* the key iteration tt stores its varmapb under
varmapb_key(tt) == tt - 1

\* a loop of _init_at_time that stops at maxtime
init_range_short(maxtime) == 0 .. maxtime

\* the iterations of the loop of _init_at_time
init_range(maxtime) == 0 .. (maxtime + 1)

\* _init_at_time: the two caches it builds
init_varmapf_t(varsstr, maxtime) ==
    [tt \in init_range(maxtime) |-> varmapf(varsstr, tt)]

init_varmapb_t(varsstr, maxtime, previous) ==
    IF previous
    THEN [i \in {varmapb_key(tt) : tt \in init_range(maxtime)} |->
             varmapb(varsstr, CHOOSE tt \in init_range(maxtime) : varmapb_key(tt) = i)]
    ELSE [i \in {} |-> varmapb(varsstr, 0)]

at_time(formula, tt) == substitute(formula, varmapf_t[tt])

at_ptime(formula, tt) == substitute(formula, varmapb_t[tt])

-----------------------------------------------------------------------------
(* Unroller and simple-path encoder *)

Min(a, b) == IF a <= b THEN a ELSE b

Max(a, b) == IF a <= b THEN b ELSE a

\* unroll with the invariant of a forward step at the frame the step leaves
unroll_invar_at_t(trans, invar, k_end, k_start) ==
    LET fwd == k_start <= k_end
        step(tt) == IF fwd
                    THEN And(at_time(Lit(trans), tt), at_time(Lit(invar), tt))
                    ELSE And(at_ptime(Lit(trans), tt), at_ptime(Lit(invar), tt))
    IN  UNION {step(tt) : tt \in Min(k_start, k_end) .. (Max(k_start, k_end) - 1)}

unroll(trans, invar, k_end, k_start) ==
    LET fwd == k_start <= k_end
        step(tt) == IF fwd
                    THEN And(at_time(Lit(trans), tt), at_time(Lit(invar), tt + 1))
                    ELSE And(at_ptime(Lit(trans), tt), at_ptime(Lit(invar), tt))
    IN  UNION {step(tt) : tt \in Min(k_start, k_end) .. (Max(k_start, k_end) - 1)}

\* not_eq_states: some variable differs between the two frames
not_eq_states(vars_, k_end, tt) ==
    {UNION {CHOOSE c \in NotEq(timed(v, k_end), timed(v, tt)) : TRUE : v \in vars_}}

simple_path(vars_, k_end, k_start) ==
    IF k_end = k_start THEN TRUE_F
    ELSE UNION {not_eq_states(vars_, k_end, tt) : tt \in k_start .. (k_end - 1)}

-----------------------------------------------------------------------------
(* The transition systems, properties and configurations analysed *)

\* the transitions a transition relation is drawn from: a ring and a self-loop
Edges == {<<0, 1>>, <<1, 2>>, <<2, 3>>, <<3, 0>>, <<1, 1>>}

\* the pairs (init, invar) of the systems analysed
InitInvar == {<<{0}, Vals>>, <<{0, 1}, Vals>>, <<Vals, Vals>>,
              <<{0}, {0, 1, 2}>>, <<Vals, {0, 1, 3}>>}

HTSs == {[init |-> SetAtom(ii[1]), trans |-> RelAtom(T), invar |-> SetAtom(ii[2]),
          assumptions |-> TRUE_F] : ii \in InitInvar, T \in SUBSET Edges}

\* properties over x, and properties with a next-state variable
StateProps == {SetAtom(Vals \ {v}) : v \in {1, 2, 3}} \cup {SetAtom({0})}

NextProps == {RelAtom({<<v, w>> \in Vals \X Vals : w # 2}),
              RelAtom({<<v, w>> \in Vals \X Vals : v # 0 \/ w = 1})}

Props == StateProps \cup NextProps

\* BMCConfig, with the minimum depth the search is called with
Configs ==
    {[incremental |-> TRUE, strategy |-> FWD, prove |-> p, smt2file |-> TRUE,
      skip_solving |-> FALSE, k_min |-> m] : p \in BOOLEAN, m \in 0 .. MaxKMin}
    \cup
    {[incremental |-> i, strategy |-> s, prove |-> FALSE, smt2file |-> TRUE,
      skip_solving |-> FALSE, k_min |-> 0] : i \in BOOLEAN, s \in {BWD, ZZ}}
    \cup
    {[incremental |-> FALSE, strategy |-> FWD, prove |-> FALSE, smt2file |-> TRUE,
      skip_solving |-> FALSE, k_min |-> 0]}
    \cup
    {[incremental |-> TRUE, strategy |-> NU, prove |-> FALSE, smt2file |-> TRUE,
      skip_solving |-> FALSE, k_min |-> 0]}

\* the lemmas argument of safety: None, or a list of lemmas
NoLemmas == [given |-> FALSE, list |-> <<>>]

Lemmas(list) == [given |-> TRUE, list |-> list]

\* the previous call of safety: its lemmas, the lemmas that held and whether
\* they implied the property
NoHist == [valid |-> FALSE, lemmas |-> <<>>, holding |-> <<>>, imply |-> FALSE]

\* results of a search: (t, model), (t, True), (-1, None)
NoModel == [s \in {} |-> 0]

Res(depth, kind, model) == [t |-> depth, kind |-> kind, model |-> model]

NoRes == Res(-1, "none", NoModel)

\* VerificationStatus
VS_TRUE == "TRUE"
VS_FALSE == "FALSE"
VS_UNK == "UNK"

Ret(status, trace, depth) == [status |-> status, trace |-> trace, t |-> depth]

NoRet == Ret("none", NoModel, -1)

-----------------------------------------------------------------------------
(* BMC.__init__ *)

Init ==
    /\ hts \in HTSs
    /\ prop \in Props
    /\ config \in {c \in Configs : TRUE}
    /\ k \in {0, 1, MaxK}
    /\ k_min = config.k_min
    /\ varmapf_t = <<>>
    /\ varmapb_t = <<>>
    /\ solver = TraceSolver(config.smt2file)
    /\ solver_2 = TraceSolver(config.smt2file /\ config.prove)
    /\ pc = "idle"
    /\ t = 0
    /\ propt = FALSE_F
    /\ res = NoRes
    /\ ret = NoRet
    /\ lemmas = NoLemmas
    /\ lidx = 0
    /\ holding_lemmas = <<>>
    /\ runs = 1
    /\ hist = NoHist
    /\ entry = "safety"
    /\ full_model = NoModel
    /\ init_0 = TRUE_F

LemmaVars == <<lemmas, lidx, holding_lemmas, runs, hist>>

\* the entry point called, and the locals of sim_no_unroll
SimVars == <<entry, full_model, init_0>>

-----------------------------------------------------------------------------
(* safety: the caches are built, then solve dispatches on the configuration *)

Safety ==
    /\ pc = "idle"
    /\ entry = "safety"
    /\ varmapf_t' = init_varmapf_t(Vars, k)
    /\ varmapb_t' = init_varmapb_t(Vars, k, config.strategy # FWD)
    /\ pc' = "solve"
    /\ UNCHANGED <<hts, prop, config, k, k_min, solver, solver_2, t, propt, res, ret,
                   LemmaVars, SimVars>>

-----------------------------------------------------------------------------
(* Lemma pipeline: _check_lemma, _check_lemmas, add_lemmas *)

\* And of a list of atoms
AndSeq(list) == {{list[i]} : i \in DOMAIN list}

\* the init check of _check_lemma: Not(Implies(init & invar, lemma)) at time 0
check_lemma_1(h, lemma) ==
    at_time(And(And(Lit(single_init(h)), Lit(single_invar(h))), Not(lemma)), 0)

\* the step check of _check_lemma: trans & invar & invar' & lemma & ~lemma' at time 0
check_lemma_2(h, lemma) ==
    LET invar == single_invar(h)
        trans == And(And(Lit(single_trans(h)), Lit(invar)), Lit(to_next(invar)))
    IN  at_time(And(And(trans, Lit(lemma)), Not(to_next(lemma))), 0)

\* the solver when the init check of _check_lemma is solved
check_lemma_s1(sv, h, lemma) == add_assertion(reset_assertions(sv), check_lemma_1(h, lemma))

\* the solver when the step check of _check_lemma is solved
check_lemma_s2(sv, h, lemma) ==
    add_assertion(reset_assertions(solve_log(check_lemma_s1(sv, h, lemma))),
                  check_lemma_2(h, lemma))

\* a _check_lemma that makes the init check only
check_lemma_init_only(sv, h, lemma) == ~solve_res(check_lemma_s1(sv, h, lemma))

\* _check_lemma: what it returns, and the solver it leaves
check_lemma(sv, h, lemma) ==
    IF solve_res(check_lemma_s1(sv, h, lemma)) THEN FALSE
    ELSE IF solve_res(check_lemma_s2(sv, h, lemma)) THEN FALSE
    ELSE TRUE

check_lemma_solver(sv, h, lemma) ==
    IF solve_res(check_lemma_s1(sv, h, lemma))
    THEN solve_log(check_lemma_s1(sv, h, lemma))
    ELSE solve_log(check_lemma_s2(sv, h, lemma))

\* the solver when the check of _check_lemmas is solved
check_lemmas_s1(sv, p, list) ==
    add_assertion(reset_assertions(sv), And(AndSeq(list), Not(p)))

\* _check_lemmas: whether the lemmas imply the property
check_lemmas(sv, p, list) == ~solve_res(check_lemmas_s1(sv, p, list))

\* an assumptions slot that is given every lemma of the list
new_assumptions_all(h, holding) == AndSeq(lemmas.list)

\* the value add_lemmas stores in hts.assumptions
new_assumptions(h, holding) == AndSeq(holding)

\* a list of holding lemmas that is carried over from the previous call
holding_carried == holding_lemmas

\* holding_lemmas = [] at the start of add_lemmas
holding_start == <<>>

\* solve with lemmas: the statements of add_lemmas before its loop
AddLemmasBegin ==
    /\ pc = "solve"
    /\ lemmas.given
    /\ IF Len(lemmas.list) = 0
       THEN /\ pc' = "dispatch"
            /\ UNCHANGED <<solver, holding_lemmas, lidx>>
       ELSE /\ solver' = reset_assertions(solver)
            /\ holding_lemmas' = holding_start
            /\ lidx' = 1
            /\ pc' = "lemmas"
    /\ UNCHANGED <<hts, prop, config, k, k_min, varmapf_t, varmapb_t, solver_2, t, propt,
                   res, ret, lemmas, runs, hist, SimVars>>

\* one iteration of the loop of add_lemmas; after the last one the holding
\* lemmas are stored and solve goes on to the search
AddLemmasIter ==
    /\ pc = "lemmas"
    /\ lidx <= Len(lemmas.list)
    /\ LET lemma == lemmas.list[lidx]
           ok == check_lemma(solver, hts, lemma)
           s1 == check_lemma_solver(solver, hts, lemma)
           holding == IF ok THEN Append(holding_lemmas, lemma) ELSE holding_lemmas
           imply == ok /\ check_lemmas(s1, prop, holding)
       IN  /\ holding_lemmas' = holding
           /\ solver' = IF ok THEN solve_log(check_lemmas_s1(s1, prop, holding)) ELSE s1
           /\ IF imply
              THEN /\ res' = Res(0, "True", NoModel)
                   /\ pc' = "solved"
                   /\ UNCHANGED <<hts, lidx>>
              ELSE /\ lidx' = lidx + 1
                   /\ UNCHANGED res
                   /\ IF lidx + 1 <= Len(lemmas.list)
                      THEN pc' = "lemmas" /\ UNCHANGED hts
                      ELSE /\ pc' = "dispatch"
                           /\ hts' = [hts EXCEPT !.assumptions = new_assumptions(hts, holding)]
    /\ UNCHANGED <<prop, config, k, k_min, varmapf_t, varmapb_t, solver_2, t, propt, ret,
                   lemmas, runs, hist, SimVars>>

\* solve has reached its dispatch on the configuration
Dispatching == (pc = "solve" /\ ~lemmas.given) \/ pc = "dispatch"

-----------------------------------------------------------------------------
(* solve_inc: a strategy that is none of FWD, BWD, ZZ *)

SolveIncInvalid ==
    /\ Dispatching
    /\ config.incremental
    /\ config.strategy \notin {FWD, BWD, ZZ}
    /\ pc' = "error"
    /\ UNCHANGED <<hts, prop, config, k, k_min, varmapf_t, varmapb_t, solver, solver_2, t,
                   propt, res, ret, LemmaVars, SimVars>>

-----------------------------------------------------------------------------
(* solve_inc_fwd *)

\* a test of the horizon that passes every k
fwd_k_never_too_small(next_prop) == next_prop /\ k < 0

\* the horizon is too small for a property over a next-state variable
fwd_k_too_small(next_prop) == next_prop /\ k < 1

\* the statements of solve_inc_fwd before its loop
SolveIncFwdBegin ==
    /\ Dispatching
    /\ config.incremental
    /\ config.strategy = FWD
    /\ LET init == single_init(hts)
           invar == single_invar(hts)
           formula == at_time(And(Lit(init), Lit(invar)), 0)
           next_prop == has_next(prop)
       IN  /\ solver' = add_assertion(reset_assertions(solver), formula)
           /\ solver_2' = IF config.prove
                          THEN add_assertion(reset_assertions(solver_2),
                                             at_time(Lit(invar), 0))
                          ELSE solver_2
           /\ propt' = FALSE_F
           /\ IF fwd_k_too_small(next_prop)
              THEN pc' = "error" /\ UNCHANGED <<k_min, t>>
              ELSE /\ k_min' = IF next_prop THEN 1 ELSE k_min
                   /\ t' = 0
                   /\ pc' = "fwd"
    /\ UNCHANGED <<hts, prop, config, k, varmapf_t, varmapb_t, res, ret, LemmaVars, SimVars>>

\* a negated property that is that of the current depth only, whatever k_min is
fwd_propt_current(next_prop) ==
    at_time(Not(prop), IF next_prop /\ t > 0 THEN t - 1 ELSE t)

\* the negated property the main solver is given at depth t
fwd_propt(next_prop) ==
    IF k_min > 0
    THEN LET t_prop == IF next_prop THEN t - 1 ELSE t
         IN  IF (~next_prop) \/ (next_prop /\ t > 0)
             THEN Or(propt, at_time(Not(prop), t_prop))
             ELSE propt
    ELSE at_time(Not(prop), t)

\* a step for the induction solver that carries init at frame 0
fwd_ind_step_with_init(trans_t) == And(trans_t, at_time(Lit(single_init(hts)), 0))

\* the step the induction solver is given at depth t
fwd_ind_step(trans_t) == trans_t

\* one iteration of the loop of solve_inc_fwd
SolveIncFwdIter ==
    /\ pc = "fwd"
    /\ t < k + 1
    /\ LET trans == single_trans(hts)
           invar == single_invar(hts)
           next_prop == has_next(prop)
           propt1 == fwd_propt(next_prop)
           m1 == add_assertion(push(solver), propt1)
           check == t >= k_min
           m2 == IF check THEN solve_log(m1) ELSE m1
           sat == check /\ solve_res(m1)
           trans_t == unroll(trans, invar, t + 1, t)
           m3 == add_assertion(pop(m2), trans_t)
           i1 == add_assertion(add_assertion(solver_2, fwd_ind_step(trans_t)),
                               simple_path(Vars, t, 0))
           i2 == add_assertion(push(i1), at_time(Not(prop), t))
           i3 == IF check THEN solve_log(i2) ELSE i2
           holds == check /\ ~solve_res(i2)
           i4 == add_assertion(pop(i3), at_time(Lit(prop), t))
       IN  /\ propt' = propt1
           /\ IF sat
              THEN /\ \E model \in get_model(m1) : res' = Res(t, "model", model)
                   /\ solver' = m2
                   /\ pc' = "solved"
                   /\ UNCHANGED <<solver_2, t>>
              ELSE IF config.prove /\ holds
              THEN /\ res' = Res(t, "True", NoModel)
                   /\ solver' = m3
                   /\ solver_2' = i3
                   /\ pc' = "solved"
                   /\ UNCHANGED t
              ELSE /\ solver' = m3
                   /\ solver_2' = IF config.prove THEN i4 ELSE solver_2
                   /\ t' = t + 1
                   /\ IF t + 1 < k + 1
                      THEN pc' = "fwd" /\ UNCHANGED res
                      ELSE pc' = "solved" /\ res' = Res(-1, "none", NoModel)
    /\ UNCHANGED <<hts, prop, config, k, k_min, varmapf_t, varmapb_t, ret, LemmaVars, SimVars>>

-----------------------------------------------------------------------------
(* solve_inc_bwd *)

\* the statements of solve_inc_bwd before its loop
SolveIncBwdBegin ==
    /\ Dispatching
    /\ config.incremental
    /\ config.strategy = BWD
    /\ IF has_next(prop)
       THEN /\ solver' = reset_assertions(solver)
            /\ pc' = "error"
            /\ UNCHANGED t
       ELSE LET invar == single_invar(hts)
                formula == at_ptime(And(Not(prop), Lit(invar)), -1)
            IN  /\ solver' = add_assertion(reset_assertions(solver), formula)
                /\ t' = 0
                /\ pc' = "bwd"
    /\ UNCHANGED <<hts, prop, config, k, k_min, varmapf_t, varmapb_t, solver_2, propt,
                   res, ret, LemmaVars, SimVars>>

\* a step of solve_inc_bwd unrolled over the forward-timed symbols
bwd_step_forward(trans, invar) == unroll(trans, invar, t + 1, t)

\* the step solve_inc_bwd adds after the check at depth t
bwd_step(trans, invar) == unroll(trans, invar, t, t + 1)

\* one iteration of the loop of solve_inc_bwd
SolveIncBwdIter ==
    /\ pc = "bwd"
    /\ t < k + 1
    /\ LET init == single_init(hts)
           trans == single_trans(hts)
           invar == single_invar(hts)
           pinit == at_ptime(Lit(init), t - 1)
           m1 == add_assertion(push(solver), pinit)
           m2 == solve_log(m1)
           m3 == add_assertion(pop(m2), bwd_step(trans, invar))
       IN  IF solve_res(m1)
           THEN /\ \E model \in get_model(m1) : res' = Res(t, "model", model)
                /\ solver' = m2
                /\ pc' = "solved"
                /\ UNCHANGED t
           ELSE /\ solver' = m3
                /\ t' = t + 1
                /\ IF t + 1 < k + 1
                   THEN pc' = "bwd" /\ UNCHANGED res
                   ELSE pc' = "solved" /\ res' = Res(-1, "none", NoModel)
    /\ UNCHANGED <<hts, prop, config, k, k_min, varmapf_t, varmapb_t, solver_2, propt,
                   ret, LemmaVars, SimVars>>

-----------------------------------------------------------------------------
(* solve_inc_zz *)

\* the statements of solve_inc_zz before its loop
SolveIncZzBegin ==
    /\ Dispatching
    /\ config.incremental
    /\ config.strategy = ZZ
    /\ IF has_next(prop)
       THEN /\ solver' = reset_assertions(solver)
            /\ pc' = "error"
            /\ UNCHANGED t
       ELSE LET init == single_init(hts)
                invar == single_invar(hts)
                initt == at_time(And(Lit(init), Lit(invar)), 0)
                propt0 == at_ptime(And(Not(prop), Lit(invar)), -1)
            IN  /\ solver' = add_assertion(
                                add_assertion(reset_assertions(solver), initt), propt0)
                /\ t' = 0
                /\ pc' = "zz"
    /\ UNCHANGED <<hts, prop, config, k, k_min, varmapf_t, varmapb_t, solver_2, propt,
                   res, ret, LemmaVars, SimVars>>

\* And of the formulas of a set
AndAll(fs) == UNION fs

\* at_time and at_ptime of a formula that is one variable
at_time_var(v, tt) == IF v \in DOMAIN varmapf_t[tt] THEN varmapf_t[tt][v] ELSE v

at_ptime_var(v, tt) == IF v \in DOMAIN varmapb_t[tt] THEN varmapb_t[tt][v] ELSE v

\* an equivalence that joins the frontiers as at an even depth, whatever t is
zz_eq_even(vars_) ==
    LET th == t \div 2
    IN  AndAll({EqualsOrIff(at_time_var(v, th), at_ptime_var(v, th - 1)) : v \in vars_})

\* the equivalence that joins the forward and the backward frontier at depth t
zz_eq(vars_) ==
    LET even == (t % 2) = 0
        th == t \div 2
    IN  IF even
        THEN AndAll({EqualsOrIff(at_time_var(v, th), at_ptime_var(v, th - 1)) : v \in vars_})
        ELSE AndAll({EqualsOrIff(at_time_var(v, th + 1), at_ptime_var(v, th - 1)) : v \in vars_})

\* the step solve_inc_zz adds after the check at depth t
zz_step(trans, invar) ==
    LET even == (t % 2) = 0
        th == t \div 2
    IN  IF even THEN unroll(trans, invar, th + 1, th)
        ELSE unroll(trans, invar, th, th + 1)

\* one iteration of the loop of solve_inc_zz
SolveIncZzIter ==
    /\ pc = "zz"
    /\ t < k + 1
    /\ LET trans == single_trans(hts)
           invar == single_invar(hts)
           m1 == add_assertion(push(solver), zz_eq(Vars))
           m2 == solve_log(m1)
           m3 == add_assertion(pop(m2), zz_step(trans, invar))
       IN  IF solve_res(m1)
           THEN /\ \E model \in get_model(m1) : res' = Res(t, "model", model)
                /\ solver' = m2
                /\ pc' = "solved"
                /\ UNCHANGED t
           ELSE /\ solver' = m3
                /\ t' = t + 1
                /\ IF t + 1 < k + 1
                   THEN pc' = "zz" /\ UNCHANGED res
                   ELSE pc' = "solved" /\ res' = Res(-1, "none", NoModel)
    /\ UNCHANGED <<hts, prop, config, k, k_min, varmapf_t, varmapb_t, solver_2, propt,
                   ret, LemmaVars, SimVars>>

-----------------------------------------------------------------------------
(* solve_fwd, the non-incremental search (shortest = True) *)

SolveFwdBegin ==
    /\ Dispatching
    /\ ~config.incremental
    /\ t' = 0
    /\ pc' = "nfwd"
    /\ UNCHANGED <<hts, prop, config, k, k_min, varmapf_t, varmapb_t, solver, solver_2,
                   propt, res, ret, LemmaVars, SimVars>>

\* one iteration of the loop of solve_fwd
SolveFwdIter ==
    /\ pc = "nfwd"
    /\ t < k + 1
    /\ LET init == single_init(hts)
           trans == single_trans(hts)
           invar == single_invar(hts)
           formula == at_time(And(Lit(init), Lit(invar)), 0)
           trans_t == unroll(trans, invar, t, 0)
           propt1 == at_time(Not(prop), t)
           m1 == add_assertion(
                    add_assertion(
                       add_assertion(reset_assertions(solver), formula), trans_t), propt1)
           m2 == solve_log(m1)
       IN  /\ solver' = m2
           /\ IF solve_res(m1)
              THEN /\ \E model \in get_model(m1) : res' = Res(t, "model", model)
                   /\ pc' = "solved"
                   /\ UNCHANGED t
              ELSE /\ t' = t + 1
                   /\ IF t + 1 < k + 1
                      THEN pc' = "nfwd" /\ UNCHANGED res
                      ELSE pc' = "solved" /\ res' = Res(-1, "none", NoModel)
    /\ UNCHANGED <<hts, prop, config, k, k_min, varmapf_t, varmapb_t, solver_2, propt,
                   ret, LemmaVars, SimVars>>

-----------------------------------------------------------------------------
(* Model remapper *)

\* model[sym]: a symbol the solver never saw gets whatever value the model
\* completion gives it
Lookups(model, sym) == IF sym \in DOMAIN model THEN {model[sym]} ELSE Vals

\* a remapping that reads one frame too deep
bwd_source_shifted(var, kk, s) == ptimed(var, kk - s - 1)

\* a remapping that does not reverse the frames
bwd_source_unreversed(var, kk, s) == ptimed(var, s)

\* the previous-timed symbol whose value frame s of the trace receives
bwd_source(var, kk, s) == ptimed(var, kk - s)

\* _remap_model_fwd
remap_model_fwd(vars_, model, kk) == {model}

\* _remap_model_bwd: the models it can return
remap_model_bwd(vars_, model, kk) ==
    {r \in [{timed(v, s) : v \in vars_, s \in 0 .. kk} -> Vals] :
        \A v \in vars_, s \in 0 .. kk :
            r[timed(v, s)] \in Lookups(model, bwd_source(v, kk, s))}

\* the frames _remap_model_zz overwrites
zz_frames(kk) == ((kk \div 2) + 1) .. kk

\* _remap_model_zz: the models it can return
remap_model_zz(vars_, model, kk) ==
    LET over == {timed(v, s) : v \in vars_, s \in zz_frames(kk)}
    IN  {r \in [DOMAIN model \cup over -> Vals] :
            /\ \A sym \in DOMAIN model \ over : r[sym] = model[sym]
            /\ \A v \in vars_, s \in zz_frames(kk) :
                  r[timed(v, s)] \in Lookups(model, ptimed(v, kk - s))}

remap_model(vars_, model, kk) ==
    IF config.strategy = BWD THEN remap_model_bwd(vars_, model, kk)
    ELSE IF config.strategy = ZZ THEN remap_model_zz(vars_, model, kk)
    ELSE remap_model_fwd(vars_, model, kk)

\* a test that takes the depth -1 of an exhausted search for a depth as well
found_any(tt) == tt > -2

\* safety: solve has returned the depth of a satisfiable check
found(tt) == tt > -1

\* the statements of safety after solve has returned
SafetyReturn ==
    /\ pc = "solved"
    /\ entry = "safety"
    /\ IF res.kind = "True"
       THEN ret' = Ret(VS_TRUE, NoModel, res.t)
       ELSE IF found(res.t)
       THEN \E model \in remap_model(Vars, res.model, res.t) :
                ret' = Ret(VS_FALSE, model, res.t)
       ELSE ret' = Ret(VS_UNK, NoModel, res.t)
    /\ pc' = "done"
    /\ UNCHANGED <<hts, prop, config, k, k_min, varmapf_t, varmapb_t, solver, solver_2,
                   t, propt, res, LemmaVars, SimVars>>

-----------------------------------------------------------------------------

Next ==
    \/ Safety
    \/ SolveIncInvalid
    \/ SolveIncFwdBegin
    \/ SolveIncFwdIter
    \/ SolveIncBwdBegin
    \/ SolveIncBwdIter
    \/ SolveIncZzBegin
    \/ SolveIncZzIter
    \/ SolveFwdBegin
    \/ SolveFwdIter
    \/ SafetyReturn

Spec == Init /\ [][Next]_vars

-----------------------------------------------------------------------------
(* Calls of safety with lemmas, repeated on the same HTS *)

\* the lemmas a list is drawn from
LemmaAtoms == {SetAtom({0, 1}), SetAtom({0, 1, 2}), SetAtom({1, 2, 3})}

RECURSIVE ListsUpTo(_)
ListsUpTo(n) ==
    IF n = 0 THEN {<<>>}
    ELSE ListsUpTo(n - 1) \cup
         {Append(l, a) : l \in {m \in ListsUpTo(n - 1) : Len(m) = n - 1}, a \in LemmaAtoms}

LemmaLists == ListsUpTo(MaxLemmas)

LemmaHTSs == {h \in HTSs : /\ <<0, 1>> \in h.trans.tab
                           /\ h.init \in {SetAtom({0}), SetAtom({0, 1})}
                           /\ h.invar = SetAtom(Vals)}

InitLemma ==
    /\ hts \in LemmaHTSs
    /\ prop \in {SetAtom({0, 1, 2}), SetAtom({0})}
    /\ config = [incremental |-> TRUE, strategy |-> FWD, prove |-> FALSE,
                 smt2file |-> TRUE, skip_solving |-> FALSE, k_min |-> 0]
    /\ k = 0
    /\ k_min = config.k_min
    /\ varmapf_t = <<>>
    /\ varmapb_t = <<>>
    /\ solver = TraceSolver(config.smt2file)
    /\ solver_2 = TraceSolver(config.smt2file /\ config.prove)
    /\ pc = "idle"
    /\ t = 0
    /\ propt = FALSE_F
    /\ res = NoRes
    /\ ret = NoRet
    /\ lemmas \in {Lemmas(l) : l \in LemmaLists}
    /\ lidx = 0
    /\ holding_lemmas = <<>>
    /\ runs = 1
    /\ hist = NoHist
    /\ entry = "safety"
    /\ full_model = NoModel
    /\ init_0 = TRUE_F

\* a further call safety(prop, k, k_min, lemmas) on the same BMC object
SafetyAgain ==
    /\ pc = "done"
    /\ runs < MaxRuns
    /\ runs' = runs + 1
    /\ hist' = [valid |-> lemmas.given, lemmas |-> lemmas.list,
                holding |-> holding_lemmas, imply |-> res = Res(0, "True", NoModel)]
    /\ lemmas' \in {Lemmas(l) : l \in LemmaLists}
    /\ k_min' = config.k_min
    /\ res' = NoRes
    /\ ret' = NoRet
    /\ pc' = "idle"
    /\ UNCHANGED <<hts, prop, config, k, varmapf_t, varmapb_t, solver, solver_2, t, propt,
                   lidx, holding_lemmas, SimVars>>

NextLemma ==
    \/ Safety
    \/ AddLemmasBegin
    \/ AddLemmasIter
    \/ SolveIncFwdBegin
    \/ SolveIncFwdIter
    \/ SafetyReturn
    \/ SafetyAgain

SpecLemma == InitLemma /\ [][NextLemma]_vars

-----------------------------------------------------------------------------
(* simulate and sim_no_unroll *)

\* the horizon simulate builds the caches for
sim_maxtime == IF config.strategy = NU THEN 1 ELSE k

\* the statements of simulate before the search: the caches are built; with a
\* strategy other than NU the search is given Not(prop), and for prop = TRUE
\* the configuration is made non-incremental and solve_fwd is run for depth k
Simulate ==
    /\ pc = "idle"
    /\ entry = "simulate"
    /\ varmapf_t' = init_varmapf_t(Vars, sim_maxtime)
    /\ varmapb_t' = init_varmapb_t(Vars, sim_maxtime, config.strategy # FWD)
    /\ IF config.strategy = NU
       THEN /\ pc' = "sim_nu"
            /\ UNCHANGED <<prop, config, t>>
       ELSE /\ prop' = NotAtom(prop)
            /\ IF prop = TrueAtom
               THEN /\ config' = [config EXCEPT !.incremental = FALSE]
                    /\ t' = k
                    /\ pc' = "nfwd"
               ELSE /\ pc' = "solve"
                    /\ UNCHANGED <<config, t>>
    /\ UNCHANGED <<hts, k, k_min, solver, solver_2, propt, res, ret, LemmaVars, SimVars>>

\* And of v = val over the variables, for the values a model gives them
pinned(model, tt) == AndAll({EqualsVal(timed(v, tt), model[timed(v, tt)]) : v \in Vars})

\* the models dict([(v, get_value(v)) for v in relevant_vars]) can be
values_of(model, syms) == {r \in [syms -> Vals] : \A sym \in syms : r[sym] \in Lookups(model, sym)}

\* sim_no_unroll before its loop: an initial state is picked
SimNoUnrollBegin ==
    /\ pc = "sim_nu"
    /\ LET init == single_init(hts)
           invar == single_invar(hts)
           trans == single_trans(hts)
           invar_0 == at_time(Lit(invar), 0)
           trans_01 == unroll(trans, invar, 1, 0)
           relevant_vars_0 == {timed(v, 0) : v \in Vars}
           m1 == add_assertion(reset_assertions(solver),
                               And(at_time(Lit(init), 0), invar_0))
           m2 == solve_log(m1)
           m3 == add_assertion(add_assertion(reset_assertions(m2), trans_01), invar_0)
       IN  IF solve_res(m1)
           THEN /\ \E model \in get_model(m1) :
                      \E init_model \in values_of(model, relevant_vars_0) :
                          /\ full_model' = init_model
                          /\ init_0' = pinned(init_model, 0)
                /\ solver' = m3
                /\ IF k >= 1
                   THEN pc' = "nu" /\ t' = 1
                   ELSE pc' = "error" /\ UNCHANGED t
                /\ UNCHANGED res
           ELSE /\ res' = Res(0, "none", NoModel)
                /\ solver' = m2
                /\ pc' = "solved"
                /\ UNCHANGED <<t, full_model, init_0>>
    /\ UNCHANGED <<hts, prop, config, k, k_min, varmapf_t, varmapb_t, solver_2, propt, ret,
                   LemmaVars, entry>>

\* a next state that is read from frame 0 of the window
sim_read_var_0(v) == timed(v, 0)

\* the symbol of the window that the next state of v is read from (v[1] of
\* relevant_vars_01)
sim_read_var(v) == timed(v, 1)

\* one iteration of the loop of sim_no_unroll (inc = True, all_vars = True)
SimNoUnrollIter ==
    /\ pc = "nu"
    /\ t <= k
    /\ LET cover == prop
           cover_1 == at_time(Lit(cover), 1)
           m1 == add_assertion(push(solver), init_0)
           m2 == solve_log(m1)
       IN  IF solve_res(m1)
           THEN \E init_model \in get_model(m1) :
                  \E val \in Lookups(init_model, sim_read_var("x")) :
                    LET full == [sym \in DOMAIN full_model \cup {timed("x", t)} |->
                                    IF sym = timed("x", t) THEN val ELSE full_model[sym]]
                        m3 == add_assertion(
                                 add_assertion(m2, EqualsVal(timed("x", 1), val)), cover_1)
                        reached == cover # TrueAtom /\ solve_res(m3)
                        m4 == IF cover # TrueAtom THEN solve_log(m3) ELSE m2
                    IN  /\ full_model' = full
                        /\ init_0' = EqualsVal(timed("x", 0), val)
                        /\ IF reached
                           THEN /\ res' = Res(t, "model", full)
                                /\ solver' = m4
                                /\ pc' = "solved"
                                /\ UNCHANGED t
                           ELSE /\ solver' = pop(m4)
                                /\ IF t + 1 <= k
                                   THEN t' = t + 1 /\ pc' = "nu" /\ UNCHANGED res
                                   ELSE /\ res' = Res(t, "model", full)
                                        /\ pc' = "solved"
                                        /\ UNCHANGED t
           ELSE /\ res' = Res(-1, "model", full_model)
                /\ solver' = m2
                /\ pc' = "solved"
                /\ UNCHANGED <<t, full_model, init_0>>
    /\ UNCHANGED <<hts, prop, config, k, k_min, varmapf_t, varmapb_t, solver_2, propt, ret,
                   LemmaVars, entry>>

\* the statements of simulate after the search has returned; what the trace
\* printer makes of a model that is None is not known: it raises or returns
SimulateReturn ==
    /\ pc = "solved"
    /\ entry = "simulate"
    /\ IF res.kind = "none"
       THEN IF res.t > -1
            THEN \/ ret' = Ret(VS_TRUE, NoModel, res.t) /\ pc' = "done"
                 \/ pc' = "error" /\ UNCHANGED ret
            ELSE ret' = Ret(VS_FALSE, NoModel, res.t) /\ pc' = "done"
       ELSE /\ \E model \in remap_model(Vars, res.model, res.t) :
                  ret' = IF res.t > -1 THEN Ret(VS_TRUE, model, res.t)
                         ELSE Ret(VS_FALSE, NoModel, res.t)
            /\ pc' = "done"
    /\ UNCHANGED <<hts, prop, config, k, k_min, varmapf_t, varmapb_t, solver, solver_2,
                   t, propt, res, LemmaVars, SimVars>>

\* a call of safety on the BMC object that simulate was called on
SafetyAfterSimulate ==
    /\ pc = "done"
    /\ entry = "simulate"
    /\ runs < MaxRuns
    /\ runs' = runs + 1
    /\ entry' = "safety"
    /\ k_min' = config.k_min
    /\ res' = NoRes
    /\ ret' = NoRet
    /\ pc' = "idle"
    /\ UNCHANGED <<hts, prop, config, k, varmapf_t, varmapb_t, solver, solver_2, t, propt,
                   lemmas, lidx, holding_lemmas, hist, full_model, init_0>>

\* the systems, cover formulas and configurations simulate is called with
SimHTSs == {h \in HTSs : /\ <<0, 1>> \in h.trans.tab
                         /\ h.init \in {SetAtom({0}), SetAtom({0, 1})}
                         /\ h.invar \in {SetAtom(Vals), SetAtom({0, 1, 2})}}
           \cup {[init |-> SetAtom({3}), trans |-> RelAtom(Edges),
                  invar |-> SetAtom({0, 1, 2}), assumptions |-> TRUE_F]}

Covers == {TrueAtom, SetAtom({2}), SetAtom({1, 3})}

SimConfigs ==
    {[incremental |-> i, strategy |-> s, prove |-> FALSE, smt2file |-> TRUE,
      skip_solving |-> FALSE, k_min |-> 0] :
        i \in BOOLEAN, s \in {FWD, BWD, ZZ, NU}}

InitSim ==
    /\ hts \in SimHTSs
    /\ prop \in Covers
    /\ config \in SimConfigs
    /\ k \in 0 .. MaxSimK
    /\ k_min = config.k_min
    /\ varmapf_t = <<>>
    /\ varmapb_t = <<>>
    /\ solver = TraceSolver(config.smt2file)
    /\ solver_2 = TraceSolver(config.smt2file /\ config.prove)
    /\ pc = "idle"
    /\ t = 0
    /\ propt = FALSE_F
    /\ res = NoRes
    /\ ret = NoRet
    /\ lemmas = NoLemmas
    /\ lidx = 0
    /\ holding_lemmas = <<>>
    /\ runs = 1
    /\ hist = NoHist
    /\ entry = "simulate"
    /\ full_model = NoModel
    /\ init_0 = TRUE_F

NextSim ==
    \/ Simulate
    \/ SimNoUnrollBegin
    \/ SimNoUnrollIter
    \/ SimulateReturn
    \/ SafetyAfterSimulate
    \/ Next

SpecSim == InitSim /\ [][NextSim]_vars

-----------------------------------------------------------------------------
(* What the transition system itself admits, against which the results of  *)
(* the searches are stated                                                 *)

\* atom a holds in state v; atom a holds on the step from v to w
Sat1(a, v) == HoldsAtom(a, [n \in {"x"} |-> v])

Sat2(a, v, w) == HoldsAtom(a, [n \in {"x", prime("x")} |-> IF n = "x" THEN v ELSE w])

\* the states an execution can start in, and the successors of a set of states
Start(h) == {v \in Vals : Sat1(h.init, v) /\ Sat1(h.invar, v)}

Post(h, S) == {w \in Vals : Sat1(h.invar, w) /\ \E v \in S : Sat2(h.trans, v, w)}

\* the states reached by executions of exactly d transitions
RECURSIVE ReachAt(_, _)
ReachAt(h, d) == IF d = 0 THEN Start(h) ELSE Post(h, ReachAt(h, d - 1))

\* all reachable states
ReachAll(h) == UNION {ReachAt(h, d) : d \in 0 .. Cardinality(Vals)}

\* the states that violate a property without next-state variable
Bad(p) == {v \in Vals : ~Sat1(p, v)}

\* some execution of at most kk transitions ends in a state violating p
Violable(h, p, kk) == \E d \in 0 .. kk : ReachAt(h, d) \cap Bad(p) # {}

\* p is an invariant of h
IsInvariant(h, p) ==
    IF has_next(p)
    THEN \A v \in ReachAll(h) : \A w \in Post(h, {v}) : Sat2(p, v, w)
    ELSE ReachAll(h) \cap Bad(p) = {}

X(i) == timed("x", i)

\* the frames 0..d of model m are an execution of h
IsExecution(h, m, d) ==
    /\ \A i \in 0 .. d : X(i) \in DOMAIN m
    /\ Sat1(h.init, m[X(0)])
    /\ \A i \in 0 .. d : Sat1(h.invar, m[X(i)])
    /\ \A i \in 0 .. (d - 1) : Sat2(h.trans, m[X(i)], m[X(i + 1)])

\* p is violated at frame i of model m
ViolatedAt(p, m, i) ==
    IF has_next(p)
    THEN X(i) \in DOMAIN m /\ X(i + 1) \in DOMAIN m /\ ~Sat2(p, m[X(i)], m[X(i + 1)])
    ELSE X(i) \in DOMAIN m /\ ~Sat1(p, m[X(i)])

-----------------------------------------------------------------------------

\* C1: whenever safety returns FALSE with depth t, the frames 0..t of the
\* remapped model are an execution (init and invar at frame 0, trans between
\* consecutive frames, invar at every frame) and the property is violated at
\* frame t
C1_ForwardSound ==
    (pc = "done" /\ ret.status = VS_FALSE /\ ~has_next(prop))
        => (IsExecution(hts, ret.trace, ret.t) /\ ViolatedAt(prop, ret.trace, ret.t))

\* C2: in prove mode with the incremental FWD strategy, whenever safety returns
\* TRUE from the induction prover, the property is an invariant of the HTS
C2_ProvedIsInvariant ==
    (pc = "done" /\ ret.status = VS_TRUE) => IsInvariant(hts, prop)

\* the sequences of d+1 states joined by d transitions, pairwise distinct, all
\* satisfying invar, with p holding at every state but the last
InductionPaths(h, p, d) ==
    {q \in [0 .. d -> Vals] :
        /\ \A i \in 0 .. d : Sat1(h.invar, q[i])
        /\ \A i \in 0 .. (d - 1) : Sat2(h.trans, q[i], q[i + 1])
        /\ \A i \in 0 .. d : \A j \in 0 .. d : (i # j) => (q[i] # q[j])
        /\ \A i \in 0 .. (d - 1) : Sat1(p, q[i])}

\* C3: whenever the prove path of solve_inc_fwd returns TRUE at depth t, no
\* initial state violates the property, and no sequence of t transitions over
\* pairwise distinct states has the property at every state but the last and
\* violates it at the last
C3_InductionStep ==
    (pc = "solved" /\ res.kind = "True" /\ ~has_next(prop))
        => /\ Start(hts) \cap Bad(prop) = {}
           /\ \A q \in InductionPaths(hts, prop, res.t) : Sat1(prop, q[res.t])

\* the three incremental searches, called with k_min = 0 and a property without
\* next-state variable
IsSearch == /\ config.incremental
            /\ config.strategy \in {FWD, BWD, ZZ}
            /\ config.k_min = 0
            /\ ~has_next(prop)

\* the verdict the transition system dictates: a counterexample at some depth
\* <= k, or the horizon exhausted with (-1, None)
VerdictAgrees ==
    IF Violable(hts, prop, k)
    THEN res.kind = "model" /\ res.t \in 0 .. k
    ELSE res = Res(-1, "none", NoModel)

\* C4 as stated: the incremental FWD (k_min = 0), BWD and ZZ searches give the
\* same verdict on the same HTS, horizon and property
C4_SameVerdict == (pc = "solved" /\ IsSearch) => VerdictAgrees

\* C4 as amended: the same, unless solve_inc_fwd returns (t, TRUE) from the
\* induction prover
C4_SameVerdictUnlessProved ==
    (pc = "solved" /\ IsSearch /\ res.kind # "True") => VerdictAgrees

C4_Witness ==
    /\ pc = "solved" /\ IsSearch /\ config.strategy = ZZ
    /\ res.kind = "model" /\ res.t = 3

\* the counter: init x = 0, trans x' = x + 1, property x # 3
IsCounter ==
    /\ hts.init = SetAtom({0})
    /\ hts.invar = SetAtom(Vals)
    /\ hts.trans = RelAtom({<<0, 1>>, <<1, 2>>, <<2, 3>>, <<3, 0>>})
    /\ prop = SetAtom({0, 1, 2})

\* C5: when the BWD or the ZZ search returns a counterexample at depth t, the
\* remapped model is an execution of t transitions whose last frame violates
\* the property; on the counter with property x # 3 it is 0, 1, 2, 3
C5_RemappedIsExecution ==
    (pc = "done" /\ config.incremental /\ config.strategy \in {BWD, ZZ}
        /\ ret.status = VS_FALSE)
        => /\ IsExecution(hts, ret.trace, ret.t)
           /\ ViolatedAt(prop, ret.trace, ret.t)
           /\ IsCounter => (ret.t = 3 /\ \A i \in 0 .. 3 : ret.trace[X(i)] = i)

C5_Witness ==
    /\ pc = "done" /\ config.incremental /\ config.strategy = BWD
    /\ ret.status = VS_FALSE /\ IsCounter /\ ret.t = 3

\* C6: after a search call has returned, whatever its outcome, every solver it
\* used has zero outstanding push-levels
C6_NoOutstandingPush ==
    (pc \in {"solved", "done"})
        => (PushLevels(solver) = 0 /\ PushLevels(solver_2) = 0)

\* the declared symbols in scope after each line of a trace: one set per open
\* push-level, as an SMT-LIB engine replaying the trace keeps them
RECURSIVE Scopes(_, _)
Scopes(log, n) ==
    IF n = 0 THEN <<{}>>
    ELSE LET st == Scopes(log, n - 1)
             top == st[Len(st)]
             line == log[n]
         IN  IF line.op = "set-logic" THEN <<{}>>
             ELSE IF line.op = "declare-fun"
             THEN [st EXCEPT ![Len(st)] = top \cup line.syms]
             ELSE IF line.op = "push" THEN Append(st, top)
             ELSE IF line.op = "pop" THEN SubSeq(st, 1, Len(st) - 1)
             ELSE st

InScope(log, n) == LET st == Scopes(log, n) IN st[Len(st)]

\* every symbol of every assert line has a declaration in scope at that line
WellScoped(log) ==
    \A n \in DOMAIN log : (log[n].op = "assert") => (log[n].syms \subseteq InScope(log, n - 1))

\* C7: with a trace file, the declared symbols after a pop are those declared
\* before the matching push, so the solver's set of declared symbols is the set
\* of declarations in scope in the trace, and every symbol of an assert line
\* has a declaration in scope
C7_DeclarationsScoped ==
    \A sv \in {solver, solver_2} :
        sv.trace_file => (Declared(sv) = InScope(sv.log, Len(sv.log)) /\ WellScoped(sv.log))

\* C8 as stated: after _init_at_time(vars, k) the forward map has x, x', x^ at
\* every index 0..k+1, and when the strategy is not FWD the previous-time map
\* has them at every index -1..k+1
C8_CacheTotal ==
    (pc # "idle")
        => /\ \A i \in 0 .. (k + 1) : i \in DOMAIN varmapf_t /\ Names \subseteq DOMAIN varmapf_t[i]
           /\ (config.strategy # FWD)
                 => \A i \in -1 .. (k + 1) :
                        i \in DOMAIN varmapb_t /\ Names \subseteq DOMAIN varmapb_t[i]

\* C8 as amended: the previous-time map has them at every index -1..k, and at
\* no other index; it is empty when the strategy is FWD
C8_CacheTotalToK ==
    (pc # "idle")
        => /\ DOMAIN varmapf_t = 0 .. (k + 1)
           /\ \A i \in 0 .. (k + 1) : DOMAIN varmapf_t[i] = Names
           /\ DOMAIN varmapb_t = IF config.strategy # FWD THEN -1 .. k ELSE {}
           /\ \A i \in DOMAIN varmapb_t : DOMAIN varmapb_t[i] = Names

C8_Witness == pc = "solve" /\ config.strategy = BWD /\ k = MaxK

\* C9 as stated: fwdmap[t] maps x to x@t, x' to x@(t+1), x^ to x@(t-1), and
\* bwdmap[t] maps x to x#t, x' to x#(t-1), x^ to x#(t+1)
C9_MapTargets ==
    /\ \A i \in DOMAIN varmapf_t : \A v \in Vars :
          /\ varmapf_t[i][v] = timed(v, i)
          /\ varmapf_t[i][prime(v)] = timed(v, i + 1)
          /\ varmapf_t[i][prev(v)] = timed(v, i - 1)
    /\ \A i \in DOMAIN varmapb_t : \A v \in Vars :
          /\ varmapb_t[i][v] = ptimed(v, i)
          /\ varmapb_t[i][prime(v)] = ptimed(v, i - 1)
          /\ varmapb_t[i][prev(v)] = ptimed(v, i + 1)

\* C9 as amended: bwdmap[t] maps x to x#(t+1), x' to x#t, x^ to x#(t+2)
C9_MapTargetsShifted ==
    /\ \A i \in DOMAIN varmapf_t : \A v \in Vars :
          /\ varmapf_t[i][v] = timed(v, i)
          /\ varmapf_t[i][prime(v)] = timed(v, i + 1)
          /\ varmapf_t[i][prev(v)] = timed(v, i - 1)
    /\ \A i \in DOMAIN varmapb_t : \A v \in Vars :
          /\ varmapb_t[i][v] = ptimed(v, i + 1)
          /\ varmapb_t[i][prime(v)] = ptimed(v, i)
          /\ varmapb_t[i][prev(v)] = ptimed(v, i + 2)

C9_Witness == pc = "solve" /\ config.strategy = ZZ /\ k = MaxK /\ -1 \in DOMAIN varmapb_t

\* the lemmas stored in the assumptions slot
StoredLemmas(h) == UNION h.assumptions

\* a lemma holds in every initial state and is preserved by every transition
\* between states that satisfy the invariant
PassedBoth(h, lemma) ==
    /\ \A v \in Start(h) : Sat1(lemma, v)
    /\ \A v, w \in Vals :
          (Sat1(h.invar, v) /\ Sat1(h.invar, w) /\ Sat2(h.trans, v, w) /\ Sat1(lemma, v))
              => Sat1(lemma, w)

\* C10: over a sequence of calls of add_lemmas on the same HTS the assumptions
\* slot only grows, no step removes a lemma stored earlier, and every lemma in
\* it has passed the init check and the step check
C10_AssumptionsOnlyGrow ==
    [][/\ StoredLemmas(hts) \subseteq StoredLemmas(hts')
       /\ \A lemma \in StoredLemmas(hts') : PassedBoth(hts', lemma)]_vars

\* every lemma in the assumptions slot has passed both checks
C10_StoredLemmasHold == \A lemma \in StoredLemmas(hts) : PassedBoth(hts, lemma)

Source(v, s) ==
    IF config.strategy = BWD THEN bwd_source(v, res.t, s)
    ELSE IF s \in zz_frames(res.t) THEN ptimed(v, res.t - s)
    ELSE timed(v, s)

Sources == {Source(v, s) : v \in Vars, s \in 0 .. res.t}

\* a BWD or ZZ search has returned a counterexample that safety has remapped
Remapped ==
    /\ pc = "done" /\ config.incremental /\ config.strategy \in {BWD, ZZ}
    /\ ret.status = VS_FALSE

\* every frame 0..t has a value, taken from an entry of the solver's model, and
\* no entry is the source of two frames
FramesFromEntries ==
    /\ \A v \in Vars, s \in 0 .. res.t : timed(v, s) \in DOMAIN ret.trace
    /\ Sources \subseteq DOMAIN res.model
    /\ \A v \in Vars, s1, s2 \in 0 .. res.t : (Source(v, s1) = Source(v, s2)) => (s1 = s2)

\* C12 as stated: for BWD and ZZ the remapping is a bijection between the
\* entries of the solver's model and the frames 0..t, no entry of the model is
\* dropped and none is used twice
C12_RemapBijection == Remapped => (FramesFromEntries /\ Sources = DOMAIN res.model)

\* C12 as amended: for BWD it is such a bijection; for ZZ every frame has one
\* source and no source is used twice, and the one entry per variable that is
\* no source has the value of an entry that is
C12_RemapInjective ==
    Remapped =>
        /\ FramesFromEntries
        /\ (config.strategy = BWD) => (Sources = DOMAIN res.model)
        /\ (config.strategy = ZZ) =>
              /\ Cardinality(DOMAIN res.model \ Sources) = Cardinality(Vars)
              /\ \A sym \in DOMAIN res.model \ Sources :
                    \E src \in Sources : res.model[src] = res.model[sym]

C12_Witness == Remapped /\ config.strategy = ZZ /\ res.t = 3

\* the check-sat lines of a solver's trace
Checks(sv) == Cardinality({i \in DOMAIN sv.log : sv.log[i].op = "check-sat"})

\* C13: in solve_inc_fwd with a property over a next-state variable, no check
\* is made at a depth below max(k_min, 1) and one is made at every depth from
\* there on, and the negated property of depth d is over the frames d-1 and d
C13_EffectiveKMin ==
    (pc = "fwd" /\ has_next(prop))
        => /\ Checks(solver) =
                 Cardinality({d \in 0 .. (t - 1) : d >= Max(config.k_min, 1)})
           /\ get_free_variables(propt) \subseteq {timed(v, i) : v \in Vars, i \in 0 .. (t - 1)}

\* the part of C13 that holds: the first check is at depth 1, whatever k_min
C13_ChecksFromOne ==
    (pc = "fwd" /\ has_next(prop))
        => /\ Checks(solver) = Cardinality({d \in 0 .. (t - 1) : d >= 1})
           /\ get_free_variables(propt) \subseteq {timed(v, i) : v \in Vars, i \in 0 .. (t - 1)}

\* the calls that are configuration errors
ConfigError ==
    /\ config.incremental
    /\ \/ config.strategy \in {BWD, ZZ} /\ has_next(prop)
       \/ config.strategy = FWD /\ has_next(prop) /\ k < 1
       \/ config.strategy \notin {FWD, BWD, ZZ}

\* C14: a call that is a configuration error stops at the error: no check-sat
\* is issued and neither a result of the search nor a verdict is returned
C14_ErrorAborts ==
    (ConfigError /\ pc \notin {"idle", "solve"})
        => /\ pc = "error"
           /\ Checks(solver) = 0 /\ Checks(solver_2) = 0
           /\ res = NoRes /\ ret = NoRet

C14_Witness ==
    /\ pc = "error" /\ config.strategy = FWD /\ k = 0
    /\ Len(solver.log) > 1

\* the systems the lemma pipeline is run on: every pair of init and invar, the
\* transitions holding 0 -> 1
PipeHTSs == {h \in HTSs : <<0, 1>> \in h.trans.tab}

\* a BMC object before one call safety(prop, k, 0, lemmas) with a non-empty
\* lemma list
InitPipe ==
    /\ hts \in PipeHTSs
    /\ prop \in StateProps
    /\ config = [incremental |-> TRUE, strategy |-> FWD, prove |-> FALSE,
                 smt2file |-> TRUE, skip_solving |-> FALSE, k_min |-> 0]
    /\ k \in {0, 1}
    /\ k_min = config.k_min
    /\ varmapf_t = <<>>
    /\ varmapb_t = <<>>
    /\ solver = TraceSolver(config.smt2file)
    /\ solver_2 = TraceSolver(config.smt2file /\ config.prove)
    /\ pc = "idle"
    /\ t = 0
    /\ propt = FALSE_F
    /\ res = NoRes
    /\ ret = NoRet
    /\ lemmas \in {Lemmas(l) : l \in LemmaLists \ {<<>>}}
    /\ lidx = 0
    /\ holding_lemmas = <<>>
    /\ runs = 1
    /\ hist = NoHist
    /\ entry = "safety"
    /\ full_model = NoModel
    /\ init_0 = TRUE_F

NextPipe ==
    \/ Safety
    \/ AddLemmasBegin
    \/ AddLemmasIter
    \/ SolveIncFwdBegin
    \/ SolveIncFwdIter
    \/ SafetyReturn

SpecPipe == InitPipe /\ [][NextPipe]_vars

\* the configurations unroll is called under on its own
UnrollConfigs == {c \in Configs : c.k_min = 0 /\ ~c.prove}

\* a BMC object before _init_at_time and a call of unroll
InitUnroll ==
    /\ hts \in HTSs
    /\ prop \in StateProps
    /\ config \in UnrollConfigs
    /\ k \in {0, 1, MaxK}
    /\ k_min = config.k_min
    /\ varmapf_t = <<>>
    /\ varmapb_t = <<>>
    /\ solver = TraceSolver(config.smt2file)
    /\ solver_2 = TraceSolver(config.smt2file /\ config.prove)
    /\ pc = "idle"
    /\ t = 0
    /\ propt = FALSE_F
    /\ res = NoRes
    /\ ret = NoRet
    /\ lemmas = NoLemmas
    /\ lidx = 0
    /\ holding_lemmas = <<>>
    /\ runs = 1
    /\ hist = NoHist
    /\ entry = "unroll"
    /\ full_model = NoModel
    /\ init_0 = TRUE_F

\* _init_at_time(vars, k): the caches unroll reads
InitAtTime ==
    /\ pc = "idle"
    /\ entry = "unroll"
    /\ varmapf_t' = init_varmapf_t(Vars, k)
    /\ varmapb_t' = init_varmapb_t(Vars, k, config.strategy # FWD)
    /\ pc' = "cached"
    /\ UNCHANGED <<hts, prop, config, k, k_min, solver, solver_2, t, propt, res, ret,
                   LemmaVars, SimVars>>

\* unroll(trans, invar, k_end, k_start) over a window inside the caches; ret
\* keeps the window and the formula returned
Unroll ==
    /\ pc = "cached"
    /\ entry = "unroll"
    /\ \E k_start, k_end \in init_range(k) :
          /\ k_start <= k_end \/ config.strategy # FWD
          /\ ret' = [k_start |-> k_start, k_end |-> k_end,
                     formula |-> unroll(single_trans(hts), single_invar(hts),
                                        k_end, k_start)]
    /\ pc' = "unrolled"
    /\ UNCHANGED <<hts, prop, config, k, k_min, varmapf_t, varmapb_t, solver, solver_2,
                   t, propt, res, LemmaVars, SimVars>>

NextUnroll ==
    \/ InitAtTime
    \/ Unroll

SpecUnroll == InitUnroll /\ [][NextUnroll]_vars

\* the configurations that have skip_solving set
SkipConfigs ==
    {[incremental |-> i, strategy |-> s, prove |-> p, smt2file |-> TRUE,
      skip_solving |-> TRUE, k_min |-> 0] :
        i \in BOOLEAN, s \in {FWD, BWD, ZZ, NU}, p \in BOOLEAN}

\* a BMC object with skip_solving set, before a call of safety (with or without
\* lemmas) or of simulate
InitSkip ==
    /\ hts \in SimHTSs
    /\ prop \in Covers
    /\ config \in SkipConfigs
    /\ k \in 0 .. MaxSimK
    /\ k_min = config.k_min
    /\ varmapf_t = <<>>
    /\ varmapb_t = <<>>
    /\ solver = TraceSolver(config.smt2file)
    /\ solver_2 = TraceSolver(config.smt2file /\ config.prove)
    /\ pc = "idle"
    /\ t = 0
    /\ propt = FALSE_F
    /\ res = NoRes
    /\ ret = NoRet
    /\ entry \in {"safety", "simulate"}
    /\ lemmas \in {NoLemmas} \cup
                  {Lemmas(l) : l \in {m \in LemmaLists : entry = "safety" /\ m # <<>>}}
    /\ (entry = "simulate") => ~config.prove
    /\ lidx = 0
    /\ holding_lemmas = <<>>
    /\ runs = 1
    /\ hist = NoHist
    /\ full_model = NoModel
    /\ init_0 = TRUE_F

\* the steps of the search calls that a BMC object with skip_solving takes
NextSkip ==
    \/ Safety
    \/ AddLemmasBegin
    \/ AddLemmasIter
    \/ SolveIncInvalid
    \/ SolveIncFwdBegin
    \/ SolveIncFwdIter
    \/ SolveIncBwdBegin
    \/ SolveIncBwdIter
    \/ SolveIncZzBegin
    \/ SolveIncZzIter
    \/ SolveFwdBegin
    \/ SolveFwdIter
    \/ SafetyReturn
    \/ Simulate
    \/ SimNoUnrollBegin
    \/ SimulateReturn

SpecSkip == InitSkip /\ [][NextSkip]_vars

\* safety called with or without lemmas, with or without skip_solving
InitAll == Init \/ InitLemma \/ (InitSkip /\ entry = "safety")

NextAll == Next \/ AddLemmasBegin \/ AddLemmasIter

SpecAll == InitAll /\ [][NextAll]_vars

\* C15: no call changes the configuration: incremental, strategy and prove keep
\* the values they had before the call of safety or simulate, so that a
\* following call of safety dispatches as it would on a fresh object
C15_ConfigKept ==
    [][/\ config'.incremental = config.incremental
       /\ config'.strategy = config.strategy
       /\ config'.prove = config.prove]_vars

\* simulate has returned from the no-unroll simulation
SimulatedNU == pc = "done" /\ entry = "simulate" /\ config.strategy = NU

\* C17: when init and invar have no common state, simulate with the strategy
\* NU does not return the verdict TRUE
C17_NoInitialStateFails == (SimulatedNU /\ Start(hts) = {}) => (ret.status # VS_TRUE)

\* C18: whenever simulate with the strategy NU and a cover other than TRUE
\* returns the verdict TRUE at depth t, on a system that has an initial state,
\* the cover holds at frame t of the returned model
C18_CoverReached ==
    (SimulatedNU /\ prop # TrueAtom /\ Start(hts) # {} /\ ret.status = VS_TRUE)
        => (X(ret.t) \in DOMAIN ret.trace /\ Sat1(prop, ret.trace[X(ret.t)]))

\* sim_no_unroll has returned from a run with the cover TRUE and k >= 1 on a
\* system that has an initial state
SimulatedChain ==
    /\ pc = "solved" /\ entry = "simulate" /\ config.strategy = NU
    /\ prop = TrueAtom /\ k >= 1 /\ Start(hts) # {}

\* the frames a model holds
Frames(m) == {i \in 0 .. MaxSimK + 1 : X(i) \in DOMAIN m}

\* C19: run with the cover TRUE and k >= 1, sim_no_unroll returns either depth k
\* and a model whose frames 0..k are an execution, or, when the state of the
\* last frame found has no successor, depth -1 and the frames found so far,
\* which are an execution as well
C19_ChainOrDeadlock ==
    SimulatedChain =>
        /\ res.kind = "model"
        /\ \/ /\ res.t = k
              /\ Frames(res.model) = 0 .. k
              /\ IsExecution(hts, res.model, k)
           \/ /\ res.t = -1
              /\ \E d \in 0 .. (k - 1) :
                    /\ Frames(res.model) = 0 .. d
                    /\ IsExecution(hts, res.model, d)
                    /\ Post(hts, {res.model[X(d)]}) = {}

C19_Witness == SimulatedChain /\ res.t = k /\ k = MaxSimK

\* safety has returned
Returned == pc = "done" /\ entry = "safety"

\* C16: safety returns exactly one of (TRUE, None, 0) when the lemmas imply the
\* property, (TRUE, None, t) when the induction check of depth t has not
\* answered SAT, (FALSE, trace, t) with 0 <= t <= k when the check of depth t
\* has answered SAT, and (UNK, None, -1) when the loop has run to its end; with
\* prove disabled and no lemmas it never returns TRUE
C16_ReturnShapes ==
    Returned =>
        /\ ret.status \in {VS_TRUE, VS_FALSE, VS_UNK}
        /\ (ret.status = VS_TRUE) =>
              /\ ret.trace = NoModel
              /\ \/ /\ lemmas.given /\ ret.t = 0
                    /\ lidx \in 1 .. Len(lemmas.list)
                    /\ holding_lemmas # <<>>
                 \/ /\ config.prove /\ ret.t = t /\ ret.t \in 0 .. k
                    /\ solve_ret(solver_2) # "True"
        /\ (ret.status = VS_FALSE) =>
              /\ ret.t \in 0 .. k
              /\ ret.trace # NoModel
              /\ solve_ret(solver) = "True"
        /\ (ret.status = VS_UNK) => (ret.t = -1 /\ ret.trace = NoModel)
        /\ (~config.prove /\ ~lemmas.given) => (ret.status # VS_TRUE)

C16_WitnessLemmas == Returned /\ ret = Ret(VS_TRUE, NoModel, 0) /\ lemmas.given

C16_WitnessInduction == Returned /\ ret.status = VS_TRUE /\ ~lemmas.given /\ ret.t > 0

C16_Witness == Returned /\ ret.status = VS_UNK /\ k = MaxK /\ config.strategy = ZZ

\* C20: with skip_solving set, no call reaches the SMT solver of solver or of
\* solver_2 during a search call (their assertion stacks stay as constructed
\* and no model is read from them), the trace is written, and every check
\* returns the sentinel None
C20_NothingReachesSolver ==
    config.skip_solving =>
        /\ ~solver.called /\ ~solver_2.called
        /\ solver.assertions = <<{}>> /\ solver_2.assertions = <<{}>>
        /\ res.kind # "model" /\ full_model = NoModel /\ pc # "nu"
        /\ solve_ret(solver) = "None" /\ solve_ret(solver_2) = "None"
        /\ (pc \in {"solved", "done"} /\ res.t = -1) => Checks(solver) > 0

C20_Witness ==
    /\ config.skip_solving /\ pc = "done" /\ config.strategy = FWD
    /\ config.incremental /\ config.prove /\ ~lemmas.given
    /\ \E i \in DOMAIN solver.log : solver.log[i].op = "push"
    /\ Checks(solver_2) > 0

\* a is a prefix of b
IsPrefix(a, b) == Len(a) <= Len(b) /\ SubSeq(b, 1, Len(a)) = a

\* C21: during a search call the trace file of each solver only grows: the
\* lines written before a step are still there, in their order, after it, so
\* that no (check-sat) line of the call is lost
C21_TraceOnlyGrows ==
    [][/\ IsPrefix(solver.log, solver'.log)
       /\ IsPrefix(solver_2.log, solver_2'.log)]_vars

\* the executions of d transitions: init and invar at frame 0, invar at every
\* frame, trans between consecutive frames
Executions(h, d) ==
    {q \in [0 .. d -> Vals] :
        /\ Sat1(h.init, q[0])
        /\ \A i \in 0 .. d : Sat1(h.invar, q[i])
        /\ \A i \in 0 .. (d - 1) : Sat2(h.trans, q[i], q[i + 1])}

\* solve_inc_fwd is about to check at depth t a property without next-state
\* variable
FwdChecks == pc = "fwd" /\ t >= k_min /\ t < k + 1 /\ ~has_next(prop)

\* C22: in solve_inc_fwd with a property without next-state variable, the
\* check of depth t >= k_min answers SAT exactly when an execution of length t
\* violates the property at some frame 0..t (k_min >= 1), at frame t (k_min = 0)
C22_QueryMeaning ==
    [][FwdChecks =>
          ((pc' = "solved" /\ res'.kind = "model")
              <=> \E q \in Executions(hts, t) :
                     \E i \in (IF k_min >= 1 THEN 0 ELSE t) .. t : ~Sat1(prop, q[i]))]_vars

\* a check at a depth t >= k_min >= 1 has answered SAT with a model that
\* violates the property before frame t and satisfies it at frame t
C22_Witness ==
    /\ pc = "solved" /\ config.incremental /\ config.strategy = FWD /\ ~has_next(prop)
    /\ k_min >= 1 /\ res.kind = "model" /\ res.t >= 1
    /\ X(res.t) \in DOMAIN res.model /\ Sat1(prop, res.model[X(res.t)])

\* C23: for a property without next-state variable and 1 <= k_min <= k, when
\* a state violating the property is reachable within k steps (the incremental
\* FWD search with k_min = 0 returns a counterexample), the incremental FWD
\* search with that k_min, prove mode off, returns a counterexample of a depth
\* <= k as well
C23_MinDepthHidesNothing ==
    (/\ pc = "solved" /\ config.incremental /\ config.strategy = FWD /\ ~config.prove
     /\ ~has_next(prop) /\ config.k_min >= 1 /\ config.k_min <= k
     /\ Violable(hts, prop, k))
        => (res.kind = "model" /\ res.t \in 0 .. k)

\* the depths at which a state violating p is reached
ViolationDepths(h, p) == {d \in 0 .. Cardinality(Vals) : ReachAt(h, d) \cap Bad(p) # {}}

\* the minimum length of an execution from an initial state to a state
\* violating p
MinDepth(h, p) == CHOOSE d \in ViolationDepths(h, p) : \A e \in ViolationDepths(h, p) : d <= e

\* the four routines: incremental FWD with k_min = 0, BWD, ZZ, and the
\* non-incremental solve_fwd, on a property without next-state variable
IsRoutine ==
    /\ ~has_next(prop)
    /\ IF config.incremental
       THEN config.strategy \in {BWD, ZZ} \/ (config.strategy = FWD /\ config.k_min = 0)
       ELSE TRUE

\* C24: the depth each of the four routines returns with a counterexample is
\* the minimum length of an execution from an initial state to a state
\* violating the property, hence the same for the four
C24_MinimumDepth ==
    (pc = "solved" /\ IsRoutine /\ res.kind = "model")
        => (ViolationDepths(hts, prop) # {} /\ res.t = MinDepth(hts, prop))

C24_Witness ==
    /\ pc = "solved" /\ IsRoutine /\ res.kind = "model"
    /\ config.incremental /\ config.strategy = BWD /\ res.t = 2

C24_WitnessZz ==
    /\ pc = "solved" /\ IsRoutine /\ res.kind = "model"
    /\ config.incremental /\ config.strategy = ZZ /\ res.t = 3

\* the lemma pipeline has reported that the holding lemmas imply the property
LemmasImply ==
    /\ pc \in {"solved", "done"} /\ lemmas.given /\ ~has_next(prop)
    /\ res = Res(0, "True", NoModel)

\* the lemmas of a list
ListLemmas(list) == {list[i] : i \in DOMAIN list}

NotImplied == lemmas.given /\ lemmas.list # <<>> /\ pc \notin {"idle", "solve", "lemmas"}
              /\ res # Res(0, "True", NoModel)

\* C26: when add_lemmas does not report 'imply' on a non-empty list, every
\* lemma of the list has been checked, the holding lemmas are those of the list
\* that passed both checks, in the order of the list, and HTS.assumptions is
\* their conjunction
C26_FailingLemmasDropped ==
    NotImplied =>
        /\ lidx = Len(lemmas.list) + 1
        /\ ListLemmas(holding_lemmas) = {l \in ListLemmas(lemmas.list) : PassedBoth(hts, l)}
        /\ StoredLemmas(hts) = ListLemmas(holding_lemmas)
        /\ hts.assumptions = AndSeq(holding_lemmas)

\* the first lemma of the list has failed and the second one holds
C26_Witness ==
    /\ NotImplied /\ Len(lemmas.list) = 2
    /\ ~PassedBoth(hts, lemmas.list[1]) /\ holding_lemmas = <<lemmas.list[2]>>

\* solve_inc_fwd is in its loop, or has returned, in prove mode
Proving ==
    /\ config.prove /\ config.incremental /\ config.strategy = FWD
    /\ entry = "safety" /\ pc \in {"fwd", "solved"}

\* the step t -> t+1 both solvers are given in iteration i
StepOf(i) == unroll(single_trans(hts), single_invar(hts), i + 1, i)

\* what iteration i leaves on the induction solver outside of its push
InductionOf(i) == {StepOf(i), simple_path(Vars, i, 0)}

\* C27: in prove mode the induction solver holds, outside of any push, invar at
\* frame 0 and, of every iteration i made, the step i -> i+1 that the main
\* solver holds as well, simple_path(vars, i) and the property at frame i, and
\* nothing else (no formula holds init, unless init is the very formula of
\* invar or of the property); the negated property of frame t is held only
\* inside the push of the step check
C27_InductionSolverContent ==
    Proving =>
        LET returned == pc = "solved" /\ res.kind = "True"
            made == {at_time(Lit(single_invar(hts)), 0)}
                    \cup UNION {InductionOf(i) \cup {at_time(Lit(prop), i)} : i \in 0 .. (t - 1)}
        IN  /\ solver_2.assertions[1] = IF returned THEN made \cup InductionOf(t) ELSE made
            /\ IF returned
               THEN /\ Len(solver_2.assertions) = 2
                    /\ solver_2.assertions[2] = {at_time(Not(prop), t)}
               ELSE Len(solver_2.assertions) = 1
            /\ (single_init(hts) \notin {single_invar(hts), prop}) =>
                  \A lvl \in DOMAIN solver_2.assertions :
                     \A f \in solver_2.assertions[lvl] :
                        at_time(Lit(single_init(hts)), 0) \cap f = {}
            /\ \A i \in 0 .. (t - 1) : StepOf(i) \in solver.assertions[1]

C27_Witness == Proving /\ pc = "solved" /\ res.kind = "True" /\ res.t = 2

\* atom a with x renamed to cur and x' renamed to nxt
Retarget(a, cur, nxt) ==
    [syms |-> [i \in DOMAIN a.syms |->
                 IF a.syms[i] = "x" THEN cur
                 ELSE IF a.syms[i] = prime("x") THEN nxt ELSE a.syms[i]],
     tab |-> a.tab]

\* the two conjuncts of step tt: forward, the transition from x@tt to x@(tt+1)
\* and the invariant at frame tt+1; backward, both through entry tt of the
\* previous-time map, which names x by x#(tt+1) and x' by x#tt
TimedStep(trans, invar, fwd, tt) ==
    IF fwd
    THEN {{Retarget(trans, timed("x", tt), timed("x", tt + 1))},
          {Retarget(invar, timed("x", tt + 1), timed("x", tt + 2))}}
    ELSE {{Retarget(trans, ptimed("x", tt + 1), ptimed("x", tt))},
          {Retarget(invar, ptimed("x", tt + 1), ptimed("x", tt))}}

Unrolled == pc = "unrolled" /\ entry = "unroll"

\* C28: unroll(trans, invar, k_end, k_start) is the conjunction, over every t
\* from min(k_start, k_end) up to max(k_start, k_end) - 1, of the timed
\* transition at t and the timed invariant; the forward map with the invariant
\* at t+1 when k_start <= k_end, the previous-time map with the invariant at t
\* when k_start > k_end; for k_start = k_end it is TRUE
C28_UnrollConjunction ==
    Unrolled =>
        LET lo == Min(ret.k_start, ret.k_end)
            hi == Max(ret.k_start, ret.k_end)
        IN  /\ ret.formula = UNION {TimedStep(single_trans(hts), single_invar(hts),
                                              ret.k_start <= ret.k_end, tt) :
                                        tt \in lo .. (hi - 1)}
            /\ (ret.k_start = ret.k_end) => ret.formula = TRUE_F

C28_Witness ==
    /\ Unrolled
    /\ ret.k_start >= ret.k_end + 2
    /\ single_invar(hts) = SetAtom({0, 1, 2})
    /\ single_trans(hts).tab = Edges

C28_WitnessForward ==
    /\ Unrolled
    /\ ret.k_end >= ret.k_start + 2
    /\ single_invar(hts) = SetAtom({0, 1, 2})
    /\ single_trans(hts).tab = Edges

====
